---- MODULE Spec2Model ----
(***************************************************************************)
(* The function-result cache of src/functools_examples.py: a function      *)
(* wrapped by functools.lru_cache (expensive, expensive_maxsize), called   *)
(* from one thread of control, with cache_info() and cache_clear().        *)
(*                                                                         *)
(* A call of the wrapper is two steps: the key lookup (a hit returns at    *)
(* once, a miss counts and enters the wrapped function) and the return of  *)
(* the wrapped function (its result is stored, the oldest entry making     *)
(* room when the cache is full) or its raising (nothing is stored). A call  *)
(* with an unhashable argument raises TypeError before the lookup.         *)
(*                                                                         *)
(* The other demonstrations of the repository follow, each with its own    *)
(* variables and its own specification; the variables of the others stay   *)
(* as they are at the start:                                               *)
(*   Spec        calls of the cached function, any maxsize                 *)
(*   SpecKey     hash keys of calls written with keyword arguments         *)
(*   SpecScript  the caching script of src/functools_examples.py           *)
(*   SpecDeque   the deques with maxlen of collections_deque_examples.py   *)
(*   SpecCandle  the two threads consuming one deque, same file            *)
(*   SpecHeap    heappush and heapify of src/heapq_examples.py             *)
(*   SpecQueue   Queue, LifoQueue and PriorityQueue of queue_examples.py   *)
(*   SpecExit    ExitStack callbacks of src/contextlib_examples.py         *)
(***************************************************************************)
EXTENDS Integers, Sequences, FiniteSets, TLC

\* ------------------------------------------------------------ bounds
\* Completed operations (calls and cache_clear) in one run.
MaxCalls == 5
\* The maxsize arguments tried besides the default: 0 .. MaxCap.
MaxCap == 2
\* lru_cache()'s default maxsize.
DefaultMaxsize == 128

\* ------------------------------------------------------------ inputs
\* The argument pairs the demonstration calls the cached function with.
Args == {<<1, 2>>, <<2, 3>>, <<3, 4>>}

\* The argument pairs the demonstration passes that cannot be hashed:
\* ([1], 2) and (1, {"2": "two"}), each argument written as its repr.
UnhashableArgs == {<<"[1]", "2">>, <<"1", "{'2': 'two'}">>}

\* maxsize of the cache under study: lru_cache() or lru_cache(maxsize=n).
MaxSizes == (0 .. MaxCap) \cup {DefaultMaxsize}

\* The hash key built from the call's arguments.
make_key(a, b) == <<a, b>>

Keys == {make_key(p[1], p[2]) : p \in Args}

NoKey == <<0, 0>>

\* The body of the wrapped function: return a * b.
expensive(a, b) == a * b

VARIABLES
    maxsize,   \* the cache's maxsize, fixed when the function is decorated
    cache,     \* hash key -> stored result
    order,     \* resident keys, most recently used first
    hits,      \* cache_info().hits
    misses,    \* cache_info().misses
    calls,     \* how often the wrapped function's body was entered
    pc,        \* "idle", or "computing" inside the wrapped function
    cur,       \* the key of the call in progress
    log        \* the completed operations, oldest first

\* The other demonstrations of the repository, each with its own state.
VARIABLES
    kc,        \* calls of expensive written with keyword arguments, with their keys
    MAX,       \* the script's MAX: the first grid of calls is MAX x MAX
    ip,        \* the statement of the caching script that runs next
    mc,        \* make_call's frame: where it is, and its pre_hits
    out,       \* what the caching script has printed, oldest first
    expensive_maxsize,  \* the state of the lru_cache(maxsize=2) wrapper
    d1,        \* collections.deque(maxlen=3), fed with append
    d2,        \* collections.deque(maxlen=3), fed with appendleft
    feed,      \* the loop feeding d1 and d2: its i and n, where it is, the numbers drawn
    candle,    \* the deque the two burn threads consume
    burn,      \* direction -> the frame of burn(direction, ...): where it is, what it got
    main,      \* where the main thread of the deque script is
    data,      \* the heap script's list of numbers, heapified in place
    heap,      \* the list the heap script builds with heappush
    hp,        \* where the heap script is: how many items it has pushed
    q,         \* the queue script's current queue: its kind, items, unfinished_tasks
    qmain,     \* where the main thread of the queue script is, and its loop index
    workers,   \* worker -> the frame of process_job: where it is, its next_job
    qlog,      \* what the queue script printed and did, oldest first
    stack,     \* the ExitStack's callbacks, the first registered first
    es         \* the with block around stack: where it is, the exception, the calls made

cacheVars == <<maxsize, cache, order, hits, misses, calls, pc, cur, log>>
keyVars == <<kc>>
scriptVars == <<MAX, ip, mc, out, expensive_maxsize>>

dequeVars == <<d1, d2, feed>>
candleVars == <<candle, burn, main>>
heapVars == <<data, heap, hp>>
queueVars == <<q, qmain, workers, qlog>>
exitVars == <<stack, es>>

notCache == <<keyVars, scriptVars, dequeVars, candleVars, heapVars, queueVars, exitVars>>
notKey == <<cacheVars, scriptVars, dequeVars, candleVars, heapVars, queueVars, exitVars>>
notScript == <<keyVars, dequeVars, candleVars, heapVars, queueVars, exitVars>>
notDeque == <<cacheVars, keyVars, scriptVars, candleVars, heapVars, queueVars, exitVars>>
notCandle == <<cacheVars, keyVars, scriptVars, dequeVars, heapVars, queueVars, exitVars>>
notHeap == <<cacheVars, keyVars, scriptVars, dequeVars, candleVars, queueVars, exitVars>>
notQueue == <<cacheVars, keyVars, scriptVars, dequeVars, candleVars, heapVars, exitVars>>
notExit == <<cacheVars, keyVars, scriptVars, dequeVars, candleVars, heapVars, queueVars>>

vars == <<cacheVars, keyVars, scriptVars, dequeVars, candleVars, heapVars, queueVars,
          exitVars>>

EmptyCache == [k \in {} |-> 0]

currsize == Cardinality(DOMAIN cache)

cache_info == [hits |-> hits, misses |-> misses, maxsize |-> maxsize, currsize |-> currsize]

\* ------------------------------------------------------------ helpers
Remove(o, k) == SelectSeq(o, LAMBDA x : x # k)

Restrict(c, ks) == [x \in DOMAIN c \cap ks |-> c[x]]

With(c, k, v) == [x \in DOMAIN c \cup {k} |-> IF x = k THEN v ELSE c[x]]

ToSet(o) == {o[i] : i \in 1 .. Len(o)}

\* maxsize=0: no caching, only the statistics are updated.
Disabled_Never == FALSE
Disabled == maxsize = 0

\* Is the key resident?
IsHit_Never(k) == FALSE
IsHit(k) == k \in DOMAIN cache

\* A hit makes the key the most recently used one.
Promote_None(o, k) == o
Promote_Back(o, k) == Remove(o, k) \o <<k>>
Promote(o, k) == <<k>> \o Remove(o, k)

\* The cache holds maxsize entries: the next insertion must make room.
Full_Never(o) == FALSE
Full(o) == Len(o) >= maxsize

\* The least recently used key.
Oldest(o) == o[Len(o)]

\* The keys an insertion pushes out.
Evicted_Always(o) == IF Len(o) > 0 THEN <<Oldest(o)>> ELSE <<>>
Evicted(o) == IF Full(o) /\ Len(o) > 0 THEN <<Oldest(o)>> ELSE <<>>

\* The mapping after the evicted keys are deleted from it.
DropFromCache_Keep(c, ks) == c
DropFromCache(c, ks) == Restrict(c, DOMAIN c \ ks)

\* Only a result the function returned is stored, never an exception.
Retain_Errors(ok) == TRUE
Retain(ok) == ok

Entry(op, k, hit, ok, val, ev) ==
    [op |-> op, key |-> k, hit |-> hit, ok |-> ok, val |-> val, evicted |-> ev]

\* ------------------------------------------------------------ actions
\* The state of a demonstration that is not running.
KeyIdle == kc = <<>>

\* make_call is not running.
NoFrame == [pc |-> "none", pre_hits |-> 0]

\* A wrapper made by lru_cache(maxsize=n) that has not been called.
NewWrapper(n) ==
    [maxsize |-> n, cache |-> EmptyCache, order |-> <<>>, hits |-> 0, misses |-> 0]

\* The caching script before its first statement.
ScriptStart ==
    /\ ip = 1
    /\ mc = NoFrame
    /\ out = <<>>
    /\ expensive_maxsize = NewWrapper(2)

ScriptIdle == MAX = 2 /\ ScriptStart

\* Two empty deques and the feeding loop before its first iteration.
DequeIdle ==
    /\ d1 = <<>>
    /\ d2 = <<>>
    /\ feed = [i |-> 0, n |-> 0, pc |-> "randint", stream |-> <<>>]

\* candle = collections.deque(range(5))
CandleLen == 5
Directions == {"Left", "Right"}

\* The candle whole, the two threads created and not started.
CandleIdle ==
    /\ candle = [x \in 1 .. CandleLen |-> x - 1]
    /\ burn = [d \in Directions |-> [pc |-> "created", got |-> <<>>]]
    /\ main = "start_left"

\* data = [19, 9, 4, 10, 11]
ExampleData == <<19, 9, 4, 10, 11>>

\* The heap script before its first heappush.
HeapStart ==
    /\ heap = <<>>
    /\ hp = [pushed |-> 0, pc |-> "heappush"]

HeapIdle == data = ExampleData /\ HeapStart

\* workers = [Thread(...), Thread(...)]
NumWorkers == 2
Workers == 1 .. NumWorkers

\* queue.Queue(), queue.LifoQueue() or queue.PriorityQueue(), just made.
NewQueue(kind) == [kind |-> kind, queue |-> <<>>, unfinished_tasks |-> 0]

\* The queue script at q = queue.Queue().
QueueIdle ==
    /\ q = NewQueue("Queue")
    /\ qmain = [pc |-> "put", i |-> 0]
    /\ workers = [w \in Workers |-> [pc |-> "created", next_job |-> 0]]
    /\ qlog = [Queue |-> <<>>, LifoQueue |-> <<>>, gets |-> <<>>, done |-> <<>>]

\* with contextlib.ExitStack() as stack: entered, nothing registered yet.
ExitIdle ==
    /\ stack = <<>>
    /\ es = [pc |-> "body", exc |-> "None", received_exc |-> FALSE,
             suppressed_exc |-> FALSE, registered |-> <<>>, invoked |-> <<>>]

Idle == KeyIdle /\ ScriptIdle /\ DequeIdle /\ CandleIdle /\ HeapIdle /\ QueueIdle /\ ExitIdle

Init ==
    /\ Idle
    /\ maxsize \in MaxSizes
    /\ cache = EmptyCache
    /\ order = <<>>
    /\ hits = 0
    /\ misses = 0
    /\ calls = 0
    /\ pc = "idle"
    /\ cur = NoKey
    /\ log = <<>>

\* A hit is counted as a miss as well.
CallHit_CountsMiss(a, b) ==
    LET k == make_key(a, b) IN
    /\ pc = "idle"
    /\ Len(log) < MaxCalls
    /\ ~Disabled
    /\ IsHit(k)
    /\ order' = Promote(order, k)
    /\ hits' = hits + 1
    /\ misses' = misses + 1
    /\ log' = Append(log, Entry("call", k, TRUE, TRUE, cache[k], <<>>))
    /\ UNCHANGED <<maxsize, cache, calls, pc, cur>>

\* The wrapper is called with (a, b) and finds the key resident.
CallHit(a, b) ==
    LET k == make_key(a, b) IN
    /\ pc = "idle"
    /\ Len(log) < MaxCalls
    /\ ~Disabled
    /\ IsHit(k)
    /\ order' = Promote(order, k)
    /\ hits' = hits + 1
    /\ log' = Append(log, Entry("call", k, TRUE, TRUE, cache[k], <<>>))
    /\ UNCHANGED <<maxsize, cache, misses, calls, pc, cur>>

\* The miss is counted before the key is hashed.
CallUnhashable_Counts(a, b) ==
    /\ pc = "idle"
    /\ Len(log) < MaxCalls
    /\ misses' = misses + 1
    /\ log' = Append(log, Entry("TypeError", NoKey, FALSE, FALSE, 0, <<>>))
    /\ UNCHANGED <<maxsize, cache, order, hits, calls, pc, cur>>

\* The wrapper is called with an argument that cannot be hashed: building the
\* key raises TypeError before the lookup, and the caller catches it.
CallUnhashable(a, b) ==
    /\ pc = "idle"
    /\ Len(log) < MaxCalls
    /\ log' = Append(log, Entry("TypeError", NoKey, FALSE, FALSE, 0, <<>>))
    /\ UNCHANGED <<maxsize, cache, order, hits, misses, calls, pc, cur>>

\* The disabled path forgets the statistics.
CallMiss_NoCount(a, b) ==
    LET k == make_key(a, b) IN
    /\ pc = "idle"
    /\ Len(log) < MaxCalls
    /\ Disabled \/ ~IsHit(k)
    /\ misses' = IF Disabled THEN misses ELSE misses + 1
    /\ calls' = calls + 1
    /\ pc' = "computing"
    /\ cur' = k
    /\ UNCHANGED <<maxsize, cache, order, hits, log>>

\* The wrapper is called with (a, b), does not find the key (or does not
\* cache at all), counts a miss and enters the wrapped function.
CallMiss(a, b) ==
    LET k == make_key(a, b) IN
    /\ pc = "idle"
    /\ Len(log) < MaxCalls
    /\ Disabled \/ ~IsHit(k)
    /\ misses' = misses + 1
    /\ calls' = calls + 1
    /\ pc' = "computing"
    /\ cur' = k
    /\ UNCHANGED <<maxsize, cache, order, hits, log>>

\* A computation that raises is taken back out of the miss count.
FunctionEnds_Uncounts(ok) ==
    LET v == IF ok THEN expensive(cur[1], cur[2]) ELSE 0
        store == Retain(ok) /\ ~Disabled
        ev == IF store THEN Evicted(order) ELSE <<>>
    IN
    /\ pc = "computing"
    /\ IF store
         THEN /\ cache' = With(DropFromCache(cache, ToSet(ev)), cur, v)
              /\ order' = <<cur>> \o SubSeq(order, 1, Len(order) - Len(ev))
         ELSE UNCHANGED <<cache, order>>
    /\ misses' = IF ok THEN misses ELSE misses - 1
    /\ log' = Append(log, Entry("call", cur, FALSE, ok, v, ev))
    /\ pc' = "idle"
    /\ cur' = NoKey
    /\ UNCHANGED <<maxsize, hits, calls>>

\* The wrapped function returns a * b, or raises (print or * may raise); the
\* wrapper stores a returned result and lets an exception pass through.
FunctionEnds(ok) ==
    LET v == IF ok THEN expensive(cur[1], cur[2]) ELSE 0
        store == Retain(ok) /\ ~Disabled
        ev == IF store THEN Evicted(order) ELSE <<>>
    IN
    /\ pc = "computing"
    /\ IF store
         THEN /\ cache' = With(DropFromCache(cache, ToSet(ev)), cur, v)
              /\ order' = <<cur>> \o SubSeq(order, 1, Len(order) - Len(ev))
         ELSE UNCHANGED <<cache, order>>
    /\ log' = Append(log, Entry("call", cur, FALSE, ok, v, ev))
    /\ pc' = "idle"
    /\ cur' = NoKey
    /\ UNCHANGED <<maxsize, hits, misses, calls>>

\* The mapping is emptied and the recency order forgotten.
cache_clear_KeepsOrder ==
    /\ pc = "idle"
    /\ Len(log) < MaxCalls
    /\ cache' = EmptyCache
    /\ hits' = 0
    /\ misses' = 0
    /\ log' = Append(log, Entry("clear", NoKey, FALSE, TRUE, 0, <<>>))
    /\ UNCHANGED <<maxsize, order, calls, pc, cur>>

\* cache_clear(): empties the cache; functools also zeroes hits and misses
\* (the cache_info() printed after it shows hits=0, misses=0, currsize=0).
cache_clear ==
    /\ pc = "idle"
    /\ Len(log) < MaxCalls
    /\ cache' = EmptyCache
    /\ order' = <<>>
    /\ hits' = 0
    /\ misses' = 0
    /\ log' = Append(log, Entry("clear", NoKey, FALSE, TRUE, 0, <<>>))
    /\ UNCHANGED <<maxsize, calls, pc, cur>>

Next ==
    \/ (\E p \in Args : CallHit(p[1], p[2])) /\ UNCHANGED notCache
    \/ (\E p \in Args : CallMiss(p[1], p[2])) /\ UNCHANGED notCache
    \/ (\E p \in UnhashableArgs : CallUnhashable(p[1], p[2])) /\ UNCHANGED notCache
    \/ (\E ok \in BOOLEAN : FunctionEnds(ok)) /\ UNCHANGED notCache
    \/ cache_clear /\ UNCHANGED notCache

Spec == Init /\ [][Next]_vars

\* The cache before the first call of a function decorated with lru_cache().
CacheIdle ==
    /\ maxsize = DefaultMaxsize
    /\ cache = EmptyCache
    /\ order = <<>>
    /\ hits = 0
    /\ misses = 0
    /\ calls = 0
    /\ pc = "idle"
    /\ cur = NoKey
    /\ log = <<>>

\* ------------------------------------------------------------ observations
\* Read off the log of completed operations; n is a position in the log.
IsCall(n) == log[n].op = "call"

\* Operation n left its key resident and most recently used.
TouchedAt(n, k) ==
    /\ IsCall(n)
    /\ log[n].key = k
    /\ log[n].hit \/ (log[n].ok /\ maxsize # 0)

\* The last operation among the first n that touched k (0: none).
LastTouch(k, n) ==
    LET T == {i \in 1 .. n : TouchedAt(i, k)}
    IN IF T = {} THEN 0 ELSE CHOOSE i \in T : \A j \in T : j <= i

\* Operation n removed k from the cache.
RemovedAt(n, k) == log[n].op = "clear" \/ k \in ToSet(log[n].evicted)

\* k was resident once the first n operations were done.
ResidentAfter(k, n) ==
    /\ LastTouch(k, n) > 0
    /\ \A j \in (LastTouch(k, n) + 1) .. n : ~RemovedAt(j, k)

evictions == Cardinality({n \in 1 .. Len(log) : log[n].evicted # <<>>})

Computations == Cardinality({n \in 1 .. Len(log) : IsCall(n) /\ ~log[n].hit})

\* ------------------------------------------------------------ claims

\* C1: with a finite maxsize, in every state reached by any sequence of calls
\* (hits, misses, computations that raise) and cache_clear, the number of
\* resident entries is between 0 and the maxsize in force.
C1_CapacityBound ==
    /\ 0 <= currsize
    /\ currsize <= maxsize
    /\ Len(order) <= maxsize

\* C1 witness: a full cache of finite maxsize >= 1, after an eviction, a
\* raising computation and a cache_clear.
C1_Witness ==
    /\ maxsize >= 1
    /\ currsize = maxsize
    /\ \E n \in 1 .. Len(log) : log[n].op = "clear"
    /\ \E n \in 1 .. Len(log) : log[n].evicted # <<>>
    /\ \E n \in 1 .. Len(log) : IsCall(n) /\ ~log[n].ok

\* C2: an insertion that evicts removes the resident key whose last touch
\* (insertion or hit) is the oldest; the recency order lists the resident keys
\* by decreasing last touch; with maxsize 2 the calls A, B, A, C compute A, B
\* and C once each, hit on the third call, evict B and leave {A, C} resident
\* with one eviction.
C2_LruOrder ==
    LET n == Len(log) IN
    /\ \A i, j \in 1 .. Len(order) :
          i < j => LastTouch(order[i], n) > LastTouch(order[j], n)
    /\ (n > 0 /\ log[n].evicted # <<>>) =>
          LET e == log[n].evicted[1] IN
          /\ ResidentAfter(e, n - 1)
          /\ e \notin DOMAIN cache
          /\ \A k \in Keys :
                ResidentAfter(k, n - 1) => LastTouch(e, n - 1) <= LastTouch(k, n - 1)
    /\ \A A, B, C \in Keys :
          ( /\ maxsize = 2
            /\ Cardinality({A, B, C}) = 3
            /\ n = 4
            /\ pc = "idle"
            /\ \A i \in 1 .. 4 : IsCall(i) /\ log[i].ok
            /\ <<log[1].key, log[2].key, log[3].key, log[4].key>> = <<A, B, A, C>> )
          => /\ <<log[1].hit, log[2].hit, log[3].hit, log[4].hit>>
                   = <<FALSE, FALSE, TRUE, FALSE>>
             /\ calls = 3
             /\ log[4].evicted = <<B>>
             /\ DOMAIN cache = {A, C}
             /\ evictions = 1

\* C2 witness: maxsize 2 and the calls (1,2), (2,3), (1,2), (3,4) done.
C2_Witness ==
    /\ maxsize = 2
    /\ Len(log) = 4
    /\ pc = "idle"
    /\ \A i \in 1 .. 4 : IsCall(i) /\ log[i].ok
    /\ <<log[1].key, log[2].key, log[3].key, log[4].key>>
          = <<make_key(1, 2), make_key(2, 3), make_key(1, 2), make_key(3, 4)>>
    /\ log[4].evicted # <<>>

PrevCall(n) ==
    LET P == {i \in 1 .. n - 1 : IsCall(i) /\ log[i].key = log[n].key}
    IN IF P = {} THEN 0 ELSE CHOOSE i \in P : \A j \in P : j <= i

\* The call just completed is the next call of its key after one that raised.
RetryAfterFailure ==
    /\ Len(log) > 0
    /\ pc = "idle"
    /\ IsCall(Len(log))
    /\ PrevCall(Len(log)) > 0
    /\ ~log[PrevCall(Len(log))].ok

\* After a computation for K raised, K is absent and nothing is in flight.
FailureLeavesAbsent ==
    (Len(log) > 0 /\ pc = "idle" /\ IsCall(Len(log)) /\ ~log[Len(log)].ok)
    => /\ log[Len(log)].key \notin DOMAIN cache
       /\ log[Len(log)].key \notin ToSet(order)
       /\ cur = NoKey

\* C7 as stated: after a computation for K raised, K is absent, the next call
\* for K computes again, and if that succeeds its value is returned and cached.
C7_Original ==
    /\ FailureLeavesAbsent
    /\ RetryAfterFailure =>
          LET e == log[Len(log)] IN
          /\ ~e.hit
          /\ e.ok => /\ e.val = expensive(e.key[1], e.key[2])
                     /\ e.key \in DOMAIN cache
                     /\ cache[e.key] = e.val

\* C7 (amended): after a computation for K raised, K is absent and nothing is
\* in flight; the next call for K enters the function again; if that succeeds
\* its value is returned and, unless maxsize is 0, cached.
C7_ErrorNotCached ==
    /\ FailureLeavesAbsent
    /\ RetryAfterFailure =>
          LET e == log[Len(log)] IN
          /\ ~e.hit
          /\ e.ok => /\ e.val = expensive(e.key[1], e.key[2])
                     /\ maxsize # 0 => (e.key \in DOMAIN cache /\ cache[e.key] = e.val)

\* C7 witness: a call that raised, then the same call succeeding and cached.
C7_Witness ==
    /\ RetryAfterFailure
    /\ log[Len(log)].ok
    /\ log[Len(log)].key \in DOMAIN cache

\* The call just completed and the previous call of the same key, with no
\* cache_clear and no eviction of that key in between.
TwoCallsInSequence ==
    /\ Len(log) >= 2
    /\ pc = "idle"
    /\ IsCall(Len(log))
    /\ PrevCall(Len(log)) > 0
    /\ \A j \in (PrevCall(Len(log)) + 1) .. (Len(log) - 1) :
          ~RemovedAt(j, log[Len(log)].key)

\* C9 as stated: two calls of K in sequence with no eviction and no clear in
\* between enter the function at most once and return equal values.
C9_Original ==
    TwoCallsInSequence =>
        LET e == log[Len(log)]
            f == log[PrevCall(Len(log))]
        IN /\ f.hit \/ e.hit
           /\ e.ok /\ f.ok /\ e.val = f.val

\* C9 (amended): when maxsize is not 0 and the first of two calls of K in
\* sequence (no eviction, no clear in between) returned a value, the second
\* call does not enter the function and returns an equal value.
C9_IdempotentHit ==
    (TwoCallsInSequence /\ maxsize # 0 /\ log[PrevCall(Len(log))].ok) =>
        LET e == log[Len(log)]
            f == log[PrevCall(Len(log))]
        IN /\ e.hit
           /\ e.ok /\ e.val = f.val
           /\ e.val = expensive(e.key[1], e.key[2])

\* C9 witness: a computed call, a call of another key, then the first again.
C9_Witness ==
    /\ TwoCallsInSequence
    /\ maxsize # 0
    /\ PrevCall(Len(log)) = Len(log) - 2
    /\ ~log[PrevCall(Len(log))].hit
    /\ log[PrevCall(Len(log))].ok
    /\ log[Len(log)].hit

\* C10: with maxsize 0, in every state hits = 0 and nothing is resident, and
\* every call enters the function and returns the freshly computed value.
C10_DisabledCache ==
    maxsize = 0 =>
        /\ hits = 0
        /\ currsize = 0
        /\ order = <<>>
        /\ \A n \in 1 .. Len(log) :
              IsCall(n) => /\ ~log[n].hit
                           /\ log[n].ok => log[n].val = expensive(log[n].key[1], log[n].key[2])
        /\ calls = Computations + (IF pc = "computing" THEN 1 ELSE 0)
        /\ calls = Cardinality({n \in 1 .. Len(log) : IsCall(n)})
                      + (IF pc = "computing" THEN 1 ELSE 0)

\* C10 witness: maxsize 0 and the same key called twice, computed both times.
C10_Witness ==
    /\ maxsize = 0
    /\ Len(log) >= 2
    /\ IsCall(1) /\ IsCall(2)
    /\ log[1].key = log[2].key
    /\ log[1].ok /\ log[2].ok
    /\ calls = 2

\* ------------------------------------------------------------ steps
\* The step completes an operation: one entry is added to the log.
Completes(op) == Len(log') = Len(log) + 1 /\ log'[Len(log')].op = op

ClearStep == Completes("clear")

TypeErrorStep == Completes("TypeError")

HitStep == Completes("call") /\ log'[Len(log')].hit

\* The last cache_clear in the log (0: none).
LastClear ==
    LET P == {i \in 1 .. Len(log) : log[i].op = "clear"}
    IN IF P = {} THEN 0 ELSE CHOOSE i \in P : \A j \in P : j <= i

CallsSinceClear == Cardinality({n \in (LastClear + 1) .. Len(log) : IsCall(n)})

InFlight == IF pc = "computing" THEN 1 ELSE 0

FirstCallAfterClear ==
    /\ Len(log) > 0
    /\ pc = "idle"
    /\ IsCall(Len(log))
    /\ LastClear > 0
    /\ ResidentAfter(log[Len(log)].key, LastClear - 1)
    /\ \A j \in (LastClear + 1) .. (Len(log) - 1) :
          ~(IsCall(j) /\ log[j].key = log[Len(log)].key)

\* After cache_clear a previously cached key is computed again, as a miss.
RecomputedAfterClear ==
    FirstCallAfterClear => (~log[Len(log)].hit /\ misses >= 1)

\* C12 as stated: cache_clear leaves nothing resident, leaves hits, misses,
\* evictions and maxsize as they were, and the next call of a previously
\* cached key computes again and counts as a miss.
C12_Original ==
    /\ [][ClearStep =>
             /\ currsize' = 0 /\ cache' = EmptyCache /\ order' = <<>>
             /\ hits' = hits /\ misses' = misses
             /\ evictions' = evictions /\ maxsize' = maxsize]_vars
    /\ []RecomputedAfterClear

\* C12 (amended): cache_clear leaves nothing resident, leaves maxsize and the
\* number of evictions as they were, sets hits and misses to 0, and the next
\* call of a previously cached key computes again and counts as a miss.
C12_ClearResets ==
    /\ [][ClearStep =>
             /\ currsize' = 0 /\ cache' = EmptyCache /\ order' = <<>>
             /\ hits' = 0 /\ misses' = 0
             /\ evictions' = evictions /\ maxsize' = maxsize /\ calls' = calls]_vars
    /\ []RecomputedAfterClear

\* C12 witness: a key cached and hit, cache_clear, then the key computed again.
C12_Witness ==
    /\ FirstCallAfterClear
    /\ ~log[Len(log)].hit
    /\ \E n \in 1 .. LastClear : log[n].hit
    /\ misses = 1
    /\ hits = 0

\* C13: a call whose key cannot be built raises TypeError to the caller, does
\* not enter the function and leaves hits, misses, evictions, the resident
\* entries and the recency order as they were.
C13_UnhashableNoEffect ==
    [][TypeErrorStep =>
          /\ ~log'[Len(log')].ok
          /\ calls' = calls
          /\ hits' = hits /\ misses' = misses /\ evictions' = evictions
          /\ cache' = cache /\ order' = order
          /\ maxsize' = maxsize /\ pc' = "idle"]_vars

\* C13 witness: a TypeError call made on a cache with two residents, a hit and
\* misses counted.
C13_Witness ==
    /\ Len(log) > 0
    /\ log[Len(log)].op = "TypeError"
    /\ Len(order) = 2
    /\ hits >= 1
    /\ misses >= 2

\* C16: a hit on K puts K at the front of the recency order, adds one to hits,
\* does not enter the function, returns the stored value, and leaves the
\* resident entries, the size, misses, evictions and the relative order of the
\* other keys as they were; the order is already updated when the call returns.
C16_HitFrame ==
    [][HitStep =>
          LET k == log'[Len(log')].key IN
          /\ k \in DOMAIN cache
          /\ order'[1] = k
          /\ Remove(order', k) = Remove(order, k)
          /\ Len(order') = Len(order)
          /\ hits' = hits + 1
          /\ calls' = calls /\ misses' = misses /\ evictions' = evictions
          /\ cache' = cache
          /\ log'[Len(log')].ok /\ log'[Len(log')].val = cache[k]
          /\ pc' = "idle"]_vars

\* C16 witness: three residents and a hit on the one that was least recent.
C16_Witness ==
    /\ Len(log) = 4
    /\ \A n \in 1 .. 3 : IsCall(n) /\ ~log[n].hit /\ log[n].ok
    /\ log[4].hit
    /\ log[4].key = log[1].key
    /\ Len(order) = 3
    /\ order[1] = log[1].key

\* C20 as stated: hits, misses and evictions never decrease across calls and
\* cache_clear; only a separate reset lowers them.
C20_Original ==
    [][hits' >= hits /\ misses' >= misses /\ evictions' >= evictions]_vars

\* C20 (amended): hits and misses never decrease across calls, whether they
\* hit, compute, raise or fail to build a key, and the number of evictions
\* never decreases; cache_clear sets hits and misses back to 0.
C20_CountersMonotone ==
    [][/\ ~ClearStep => (hits' >= hits /\ misses' >= misses)
       /\ ClearStep => (hits' = 0 /\ misses' = 0)
       /\ evictions' >= evictions]_vars

\* C20 witness: hits and misses counted, a raising computation, then a
\* cache_clear that left both at 0.
C20_Witness ==
    /\ Len(log) >= 4
    /\ log[Len(log)].op = "clear"
    /\ \E n \in 1 .. Len(log) : IsCall(n) /\ log[n].hit
    /\ \E n \in 1 .. Len(log) : IsCall(n) /\ ~log[n].ok
    /\ hits = 0 /\ misses = 0

\* The step completes a call that computed and stored its result.
InsertStep == Completes("call") /\ ~log'[Len(log')].hit /\ log'[Len(log')].ok /\ maxsize # 0

ComputedBy(n) == Cardinality({i \in 1 .. n : IsCall(i) /\ ~log[i].hit})

\* C23: in every state misses equals the number of times the function has
\* been entered since the statistics were last reset: a computing call counts
\* its miss when it enters the function, a hit and a call whose key cannot be
\* built count none.
C23_MissesAreComputations ==
    /\ misses = calls - ComputedBy(LastClear)
    /\ misses = ComputedBy(Len(log)) - ComputedBy(LastClear) + InFlight
    /\ LastClear = 0 => misses = calls

\* C23 witness: inside the function after a hit, a raising computation and a
\* TypeError call, with no reset so far.
C23_Witness ==
    /\ pc = "computing"
    /\ LastClear = 0
    /\ \E n \in 1 .. Len(log) : IsCall(n) /\ log[n].hit
    /\ \E n \in 1 .. Len(log) : IsCall(n) /\ ~log[n].ok
    /\ \E n \in 1 .. Len(log) : log[n].op = "TypeError"
    /\ misses = 3 /\ calls = 3

\* ------------------------------------------------------------ hash keys
\* How lru_cache builds the key of a call that passes keyword arguments:
\* the positional arguments, then a marker, then each keyword's name and
\* value in the order the call wrote them.

\* Calls in one run.
MaxKeyCalls == 2

\* The values passed for a and b.
KeyValues == {1, 2}

\* The ways to call expensive(a, b): the positional arguments and the
\* keyword arguments <<name, value>>, both in the order written.
CallForms ==
    {[args |-> <<x, y>>, kwds |-> <<>>] : x \in KeyValues, y \in KeyValues}
    \cup {[args |-> <<x[1]>>, kwds |-> <<<<"b", x[2]>>>>] : x \in KeyValues \X KeyValues}
    \cup {[args |-> <<>>, kwds |-> <<<<"a", x[1]>>, <<"b", x[2]>>>>] : x \in KeyValues \X KeyValues}
    \cup {[args |-> <<>>, kwds |-> <<<<"b", x[2]>>, <<"a", x[1]>>>>] : x \in KeyValues \X KeyValues}

\* The elements of a key.
KeyValue(v) == [kind |-> "value", name |-> "", value |-> v]
KeyName(n) == [kind |-> "name", name |-> n, value |-> 0]
kwd_mark == [kind |-> "kwd_mark", name |-> "", value |-> 0]

\* The keyword arguments as they enter the key: name, value, name, value ...
kwd_items_ValuesOnly(kwds) == [i \in 1 .. Len(kwds) |-> KeyValue(kwds[i][2])]
kwd_items(kwds) ==
    [i \in 1 .. 2 * Len(kwds) |->
        IF i % 2 = 1 THEN KeyName(kwds[(i + 1) \div 2][1])
                     ELSE KeyValue(kwds[i \div 2][2])]

make_kwd_key(args, kwds) ==
    [i \in 1 .. Len(args) |-> KeyValue(args[i])]
    \o (IF kwds # <<>> THEN <<kwd_mark>> \o kwd_items(kwds) ELSE <<>>)

\* The arguments the function body receives.
BoundArgs(c) ==
    LET kw(n) == (CHOOSE i \in 1 .. Len(c.kwds) : c.kwds[i][1] = n)
        a == IF Len(c.args) >= 1 THEN c.args[1] ELSE c.kwds[kw("a")][2]
        b == IF Len(c.args) >= 2 THEN c.args[2] ELSE c.kwds[kw("b")][2]
    IN <<a, b>>

\* expensive is called as c; the call is a hit when its key is the key of
\* an earlier call (every result is kept: at most MaxKeyCalls entries).
key_call(c) ==
    /\ Len(kc) < MaxKeyCalls
    /\ LET k == make_kwd_key(c.args, c.kwds) IN
       kc' = Append(kc, [call |-> c,
                         key |-> k,
                         hit |-> \E i \in 1 .. Len(kc) : kc[i].key = k,
                         val |-> expensive(BoundArgs(c)[1], BoundArgs(c)[2])])

InitKey == CacheIdle /\ kc = <<>> /\ ScriptIdle /\ DequeIdle /\ CandleIdle /\ HeapIdle /\ QueueIdle /\ ExitIdle

NextKey == (\E c \in CallForms : key_call(c)) /\ UNCHANGED notKey

SpecKey == InitKey /\ [][NextKey]_vars

\* The keyword arguments of a call as a set of <<name, value>> pairs.
KwdSet(c) == {c.kwds[i] : i \in 1 .. Len(c.kwds)}

\* Two calls made, the first a miss.
TwoKeyCalls == Len(kc) = 2

\* C21 as stated: the same positional arguments in the same order and the
\* same keyword name/value pairs in any order give equal keys, so the second
\* call is a hit.
C21_Original ==
    (TwoKeyCalls /\ kc[1].call.args = kc[2].call.args
                 /\ KwdSet(kc[1].call) = KwdSet(kc[2].call))
        => kc[1].key = kc[2].key /\ kc[2].hit

\* C21: the key is a function of the call as written. The same positional
\* arguments and the same keywords in the same order give equal keys and a
\* hit; the same keywords written in a different order give different keys
\* and a miss; positional arguments in a different order give different keys.
C21_KeyOrderAware ==
    TwoKeyCalls =>
        LET c1 == kc[1].call
            c2 == kc[2].call
        IN /\ c1 = c2 => kc[1].key = kc[2].key /\ kc[2].hit
           /\ (c1.args = c2.args /\ KwdSet(c1) = KwdSet(c2) /\ c1.kwds # c2.kwds)
                  => kc[1].key # kc[2].key /\ ~kc[2].hit
           /\ (Len(c1.args) = 2 /\ Len(c2.args) = 2 /\ c1.args # c2.args
                 /\ c1.args[1] = c2.args[2] /\ c1.args[2] = c2.args[1])
                  => kc[1].key # kc[2].key /\ ~kc[2].hit

\* C21 witness: expensive(a=1, b=2) followed by expensive(b=2, a=1): the same
\* arguments reach the function, the second call misses.
C21_Witness ==
    /\ TwoKeyCalls
    /\ kc[1].call = [args |-> <<>>, kwds |-> <<<<"a", 1>>, <<"b", 2>>>>]
    /\ kc[2].call = [args |-> <<>>, kwds |-> <<<<"b", 2>>, <<"a", 1>>>>]
    /\ kc[1].val = kc[2].val
    /\ ~kc[2].hit

\* ------------------------------------------------------------ the caching script
\* The statements of src/functools_examples.py from "First set of calls" to
\* the last make_call, run in order. The calls go to the wrapper of expensive
\* (maxsize, cache, order, hits, misses above, with the default maxsize).

\* Values of MAX tried: 1 .. MaxMAX (the script sets MAX = 2).
MaxMAX == 3

\* for i in range(n): for j in range(n): expensive(i, j)
Grid(n) ==
    [x \in 1 .. n * n |-> [op |-> "call", a |-> (x - 1) \div n, b |-> (x - 1) % n]]

cache_info_stmt == [op |-> "cache_info", a |-> 0, b |-> 0]
cache_clear_stmt == [op |-> "cache_clear", a |-> 0, b |-> 0]
make_call_stmt(a, b) == [op |-> "make_call", a |-> a, b |-> b]
\* make_call([1], 2) and make_call(1, {"2": "two"}), inside try/except TypeError.
make_call_unhashable_stmt == [op |-> "make_call_unhashable", a |-> 0, b |-> 0]

\* The seven calls between "Establish the cache" and "Oldest item needs to
\* be recomputed".
MakeCalls ==
    << make_call_stmt(1, 2), make_call_stmt(2, 3),
       make_call_stmt(1, 2), make_call_stmt(2, 3),
       make_call_stmt(3, 4),
       make_call_stmt(2, 3),
       make_call_stmt(1, 2) >>

Program(m) ==
    Grid(m) \o <<cache_info_stmt>>
    \o Grid(m + 1) \o <<cache_info_stmt>>
    \o <<cache_clear_stmt, cache_info_stmt>>
    \o Grid(m) \o <<cache_info_stmt>>
    \o MakeCalls
    \o <<make_call_stmt(1, 2)>>
    \o <<make_call_unhashable_stmt, make_call_unhashable_stmt>>

Running == ip <= Len(Program(MAX))
stmt == Program(MAX)[ip]

\* One printed line.
Line(kind, a, b, info) ==
    [kind |-> kind, at |-> ip, a |-> a, b |-> b,
     hits |-> info.hits, misses |-> info.misses, currsize |-> info.currsize]
NoInfo == [hits |-> 0, misses |-> 0, currsize |-> 0]

\* The script is about to call expensive(stmt.a, stmt.b): directly, or from
\* make_call.
AtCall ==
    /\ Running
    /\ pc = "idle"
    /\ \/ stmt.op = "call"
       \/ stmt.op = "make_call" /\ mc.pc = "call"

\* What follows the return of expensive.
AfterCall ==
    IF stmt.op = "call"
    THEN ip' = ip + 1 /\ mc' = mc
    ELSE ip' = ip /\ mc' = [mc EXCEPT !.pc = "post"]

\* expensive(a, b) with the result in the cache.
script_call_hit ==
    /\ AtCall
    /\ IsHit(make_key(stmt.a, stmt.b))
    /\ order' = Promote(order, make_key(stmt.a, stmt.b))
    /\ hits' = hits + 1
    /\ AfterCall
    /\ UNCHANGED <<maxsize, cache, misses, calls, pc, cur, log, MAX, out, expensive_maxsize>>

\* expensive(a, b) with the result not in the cache: the body is entered.
script_call_miss ==
    /\ AtCall
    /\ ~IsHit(make_key(stmt.a, stmt.b))
    /\ misses' = misses + 1
    /\ calls' = calls + 1
    /\ pc' = "computing"
    /\ cur' = make_key(stmt.a, stmt.b)
    /\ UNCHANGED <<maxsize, cache, order, hits, log, scriptVars>>

\* The body of expensive prints its line and returns a * b, which is stored.
script_expensive_body ==
    /\ Running
    /\ pc = "computing"
    /\ out' = Append(out, Line("expensive", cur[1], cur[2], NoInfo))
    /\ LET ev == Evicted(order) IN
       /\ order' = <<cur>> \o SelectSeq(order, LAMBDA x : x \notin ToSet(ev))
       /\ cache' = With(DropFromCache(cache, ToSet(ev)), cur, expensive(cur[1], cur[2]))
    /\ pc' = "idle"
    /\ cur' = NoKey
    /\ AfterCall
    /\ UNCHANGED <<maxsize, hits, misses, calls, log, MAX, expensive_maxsize>>

\* print(expensive.cache_info())
script_cache_info ==
    /\ Running
    /\ pc = "idle"
    /\ stmt.op = "cache_info"
    /\ out' = Append(out, Line("cache_info", 0, 0, cache_info))
    /\ ip' = ip + 1
    /\ UNCHANGED <<cacheVars, MAX, mc, expensive_maxsize>>

\* The entries stay, only the counters are reset.
script_cache_clear_KeepsEntries ==
    /\ Running
    /\ pc = "idle"
    /\ stmt.op = "cache_clear"
    /\ hits' = 0
    /\ misses' = 0
    /\ ip' = ip + 1
    /\ UNCHANGED <<maxsize, cache, order, calls, pc, cur, log, MAX, mc, out, expensive_maxsize>>

\* expensive.cache_clear()
script_cache_clear ==
    /\ Running
    /\ pc = "idle"
    /\ stmt.op = "cache_clear"
    /\ cache' = EmptyCache
    /\ order' = <<>>
    /\ hits' = 0
    /\ misses' = 0
    /\ ip' = ip + 1
    /\ UNCHANGED <<maxsize, calls, pc, cur, log, MAX, mc, out, expensive_maxsize>>

\* make_call prints its arguments and reads pre_hits from expensive_maxsize.
make_call_enter ==
    /\ Running
    /\ stmt.op \in {"make_call", "make_call_unhashable"}
    /\ mc.pc = "none"
    /\ out' = Append(out, Line("make_call", stmt.a, stmt.b, NoInfo))
    /\ mc' = [pc |-> "call", pre_hits |-> expensive_maxsize.hits]
    /\ UNCHANGED <<cacheVars, MAX, ip, expensive_maxsize>>

\* make_call reads post_hits from expensive_maxsize and prints "cache hit"
\* when it is larger than pre_hits.
make_call_exit ==
    /\ Running
    /\ stmt.op = "make_call"
    /\ mc.pc = "post"
    /\ LET post_hits == expensive_maxsize.hits IN
       out' = IF post_hits > mc.pre_hits
              THEN Append(out, Line("cache hit", stmt.a, stmt.b, NoInfo))
              ELSE out
    /\ mc' = NoFrame
    /\ ip' = ip + 1
    /\ UNCHANGED <<cacheVars, MAX, expensive_maxsize>>

\* The call inside make_call raises TypeError: the except clause prints it.
make_call_TypeError ==
    /\ Running
    /\ stmt.op = "make_call_unhashable"
    /\ mc.pc = "call"
    /\ out' = Append(out, Line("ERROR", 0, 0, NoInfo))
    /\ mc' = NoFrame
    /\ ip' = ip + 1
    /\ UNCHANGED <<cacheVars, MAX, expensive_maxsize>>

InitScript ==
    /\ CacheIdle
    /\ MAX \in 1 .. MaxMAX
    /\ ScriptStart
    /\ KeyIdle
    /\ DequeIdle
    /\ CandleIdle
    /\ HeapIdle
    /\ QueueIdle
    /\ ExitIdle

NextScript ==
    \/ script_call_hit /\ UNCHANGED notScript
    \/ script_call_miss /\ UNCHANGED notScript
    \/ script_expensive_body /\ UNCHANGED notScript
    \/ script_cache_info /\ UNCHANGED notScript
    \/ script_cache_clear /\ UNCHANGED notScript
    \/ make_call_enter /\ UNCHANGED notScript
    \/ make_call_exit /\ UNCHANGED notScript
    \/ make_call_TypeError /\ UNCHANGED notScript

SpecScript == InitScript /\ [][NextScript]_vars

\* Where the statements of the script are.
FirstInfo == MAX * MAX + 1
SecondInfo == FirstInfo + (MAX + 1) * (MAX + 1) + 1
ClearAt == SecondInfo + 1
FourthInfo == ClearAt + 1 + MAX * MAX + 1
\* The n-th of the seven make_call statements.
MakeCallAt(n) == FourthInfo + n

\* The lines of one kind printed so far.
Lines(kind) == SelectSeq(out, LAMBDA l : l.kind = kind)
\* The times the body of expensive ran for statements from .. to.
Invocations(from, to) ==
    Cardinality({i \in 1 .. Len(out) :
        out[i].kind = "expensive" /\ out[i].at >= from /\ out[i].at <= to})
\* The make_call statements, of the seven, that printed "cache hit".
ReportedHits ==
    {n \in 1 .. Len(MakeCalls) :
        \E i \in 1 .. Len(out) : out[i].kind = "cache hit" /\ out[i].at = MakeCallAt(n)}
\* The make_call statements, of the seven, during which a function body ran.
Recomputed ==
    {n \in 1 .. Len(MakeCalls) : Invocations(MakeCallAt(n), MakeCallAt(n)) = 1}

\* C24 as stated: once the seven make_call statements have run, the 3rd, 4th
\* and 6th have printed "cache hit" and the others (the 7th among them) have
\* run the function body.
C24_Original ==
    ip > MakeCallAt(Len(MakeCalls)) =>
        /\ ReportedHits = {3, 4, 6}
        /\ Recomputed = {1, 2, 5, 7}

\* C25: the first cache_info line shows MAX * MAX misses and no hit; the
\* second shows MAX * MAX hits, (MAX + 1) * (MAX + 1) misses and as many
\* entries; the line after cache_clear shows an empty cache; the fourth shows
\* MAX * MAX misses again. The body of expensive runs once for each pair not
\* called since the last cache_clear: its line is never printed twice for
\* the same arguments on the same side of the cache_clear. With the script's
\* MAX = 2 the numbers are 4 and 0, then 4, 9 and 9, then 4 again.
C25_GridPasses ==
    LET info == Lines("cache_info")
        Shows(n, h, m, c) ==
            Len(info) >= n =>
                info[n].hits = h /\ info[n].misses = m /\ info[n].currsize = c
    IN /\ Shows(1, 0, MAX * MAX, MAX * MAX)
       /\ Shows(2, MAX * MAX, (MAX + 1) * (MAX + 1), (MAX + 1) * (MAX + 1))
       /\ Shows(3, 0, 0, 0)
       /\ Shows(4, 0, MAX * MAX, MAX * MAX)
       /\ Len(info) >= 1 => Invocations(1, FirstInfo) = MAX * MAX
       /\ Len(info) >= 2 =>
              Invocations(FirstInfo, SecondInfo) = (MAX + 1) * (MAX + 1) - MAX * MAX
       /\ Len(info) >= 4 => Invocations(ClearAt, FourthInfo) = MAX * MAX
       /\ \A i, j \in 1 .. Len(out) :
              (i < j /\ out[i].kind = "expensive" /\ out[j].kind = "expensive"
                 /\ out[i].a = out[j].a /\ out[i].b = out[j].b)
                  => out[i].at < ClearAt /\ ClearAt < out[j].at
       /\ (MAX = 2 /\ Len(info) >= 4) =>
              /\ info[1].misses = 4 /\ info[1].hits = 0
              /\ info[2].hits = 4 /\ info[2].misses = 9 /\ info[2].currsize = 9
              /\ Invocations(FirstInfo, SecondInfo) = 5
              /\ info[3].currsize = 0
              /\ Invocations(ClearAt, FourthInfo) = 4

\* C25 witness: the script's MAX = 2, with the fourth cache_info line printed
\* and the four pairs of the third pass in the cache again.
C25_Witness ==
    /\ MAX = 2
    /\ ip = FourthInfo + 1
    /\ Len(Lines("cache_info")) = 4
    /\ Len(Lines("expensive")) = 13
    /\ currsize = 4

\* ------------------------------------------------------------ bounded deques
\* src/collections_deque_examples.py: d1 and d2 are deques with maxlen=3;
\* ten numbers are drawn, each appended to d1 and prepended to d2. A deque is
\* the sequence of its items, leftmost first.

\* deque(maxlen=3)
maxlen == 3
\* for i in range(10)
StreamLen == 10
\* The numbers random.randint(0, 100) may return, cut to three of them: the
\* least, the greatest and one between.
RandValues == {0, 37, 100}

\* d.append(x): x goes to the right end; an item over maxlen is taken off
\* the left end.
deque_append(d, x) ==
    LET e == d \o <<x>> IN
    IF Len(e) > maxlen THEN Tail(e) ELSE e

\* The item over maxlen is taken off the left end, as append does.
deque_appendleft_DiscardsLeft(d, x) ==
    LET e == <<x>> \o d IN
    IF Len(e) > maxlen THEN Tail(e) ELSE e

\* d.appendleft(x): x goes to the left end; an item over maxlen is taken off
\* the right end.
deque_appendleft(d, x) ==
    LET e == <<x>> \o d IN
    IF Len(e) > maxlen THEN SubSeq(e, 1, Len(e) - 1) ELSE e

\* n = random.randint(0, 100)
randint(n) ==
    /\ feed.pc = "randint"
    /\ feed.i < StreamLen
    /\ feed' = [feed EXCEPT !.n = n, !.pc = "append", !.stream = Append(@, n)]
    /\ UNCHANGED <<d1, d2>>

\* d1.append(n)
d1_append ==
    /\ feed.pc = "append"
    /\ d1' = deque_append(d1, feed.n)
    /\ feed' = [feed EXCEPT !.pc = "appendleft"]
    /\ UNCHANGED d2

\* d2.appendleft(n), the end of the loop body
d2_appendleft ==
    /\ feed.pc = "appendleft"
    /\ d2' = deque_appendleft(d2, feed.n)
    /\ feed' = [feed EXCEPT !.pc = "randint", !.i = @ + 1]
    /\ UNCHANGED d1

InitDeque == CacheIdle /\ KeyIdle /\ ScriptIdle /\ DequeIdle /\ CandleIdle /\ HeapIdle /\ QueueIdle /\ ExitIdle

NextDeque ==
    \/ (\E n \in RandValues : randint(n)) /\ UNCHANGED notDeque
    \/ d1_append /\ UNCHANGED notDeque
    \/ d2_appendleft /\ UNCHANGED notDeque

SpecDeque == InitDeque /\ [][NextDeque]_vars

\* The last (at most) k items of a sequence, in their order.
LastOf(sq, k) == IF Len(sq) <= k THEN sq ELSE SubSeq(sq, Len(sq) - k + 1, Len(sq))
Reversed(sq) == [j \in 1 .. Len(sq) |-> sq[Len(sq) + 1 - j]]
\* The numbers that have reached d1, and those that have reached d2.
FedToD1 == IF feed.pc = "append" THEN SubSeq(feed.stream, 1, Len(feed.stream) - 1)
                                 ELSE feed.stream
FedToD2 == IF feed.pc = "randint" THEN feed.stream
                                  ELSE SubSeq(feed.stream, 1, Len(feed.stream) - 1)

\* C26: neither deque ever holds more than 3 items; d1 holds the last 3
\* numbers appended to it in arrival order (append on a full deque has
\* discarded the leftmost) and d2 the last 3 numbers prepended to it, newest
\* first (appendleft has discarded the rightmost), so after each loop body
\* d2 is d1 reversed.
C26_BoundedDeques ==
    /\ Len(d1) <= 3
    /\ Len(d2) <= 3
    /\ d1 = LastOf(FedToD1, 3)
    /\ d2 = Reversed(LastOf(FedToD2, 3))
    /\ feed.pc = "randint" => d2 = Reversed(d1) /\ Len(d1) = (IF feed.i < 3 THEN feed.i ELSE 3)

\* C26 witness: the ten numbers are fed, the last four of them 0, 37, 100, 0:
\* both deques were full when the last number arrived.
C26_Witness ==
    /\ feed.i = StreamLen
    /\ LastOf(feed.stream, 4) = <<0, 37, 100, 0>>
    /\ d1 = <<37, 100, 0>>
    /\ d2 = <<0, 100, 37>>

\* ------------------------------------------------------------ burning the candle
\* src/collections_deque_examples.py: two threads run burn, one taking items
\* with candle.popleft and one with candle.pop, until IndexError; the main
\* thread starts them, goes on with the rest of the script and joins them.
\* A pop is one step: the deque's methods are atomic.

\* d.popleft() and d.pop() on a deque that is not empty: the item returned
\* and the deque left.
deque_popleft_Keeps(d) == [item |-> d[1], rest |-> d]
deque_popleft(d) == [item |-> d[1], rest |-> Tail(d)]
deque_pop(d) == [item |-> d[Len(d)], rest |-> SubSeq(d, 1, Len(d) - 1)]

nextSource(dir, d) == IF dir = "Left" THEN deque_popleft(d) ELSE deque_pop(d)

\* left.start() and right.start()
thread_start(dir) ==
    /\ main = (IF dir = "Left" THEN "start_left" ELSE "start_right")
    /\ burn[dir].pc = "created"
    /\ burn' = [burn EXCEPT ![dir].pc = "next"]
    /\ main' = (IF dir = "Left" THEN "start_right" ELSE "script")
    /\ UNCHANGED candle

\* next = nextSource() returns an item.
burn_next(dir) ==
    /\ burn[dir].pc = "next"
    /\ candle # <<>>
    /\ LET r == nextSource(dir, candle) IN
       /\ candle' = r.rest
       /\ burn' = [burn EXCEPT ![dir].pc = "print", ![dir].got = Append(@, r.item)]
    /\ UNCHANGED main

\* nextSource() raises IndexError: break.
burn_IndexError(dir) ==
    /\ burn[dir].pc = "next"
    /\ candle = <<>>
    /\ burn' = [burn EXCEPT ![dir].pc = "done"]
    /\ UNCHANGED <<candle, main>>

\* print the item, time.sleep(0.1), back to the head of the loop.
burn_print(dir) ==
    /\ burn[dir].pc = "print"
    /\ burn' = [burn EXCEPT ![dir].pc = "next"]
    /\ UNCHANGED <<candle, main>>

\* print "done" and return: the thread ends.
burn_return(dir) ==
    /\ burn[dir].pc = "done"
    /\ burn' = [burn EXCEPT ![dir].pc = "ended"]
    /\ UNCHANGED <<candle, main>>

\* The main thread runs the statements between right.start() and left.join().
main_script ==
    /\ main = "script"
    /\ main' = "join_left"
    /\ UNCHANGED <<candle, burn>>

\* left.join() and right.join() return when the thread has ended.
thread_join(dir) ==
    /\ main = (IF dir = "Left" THEN "join_left" ELSE "join_right")
    /\ burn[dir].pc = "ended"
    /\ main' = (IF dir = "Left" THEN "join_right" ELSE "end")
    /\ UNCHANGED <<candle, burn>>

InitCandle == CacheIdle /\ KeyIdle /\ ScriptIdle /\ DequeIdle /\ CandleIdle /\ HeapIdle /\ QueueIdle /\ ExitIdle

\* The steps of the thread running burn(dir, ...), and of the main thread.
BurnStep(dir) ==
    (burn_next(dir) \/ burn_IndexError(dir) \/ burn_print(dir) \/ burn_return(dir))
    /\ UNCHANGED notCandle
MainStep ==
    ((\E dir \in Directions : thread_start(dir)) \/ main_script
        \/ (\E dir \in Directions : thread_join(dir)))
    /\ UNCHANGED notCandle

NextCandle ==
    \/ (\E dir \in Directions : thread_start(dir)) /\ UNCHANGED notCandle
    \/ (\E dir \in Directions : burn_next(dir)) /\ UNCHANGED notCandle
    \/ (\E dir \in Directions : burn_IndexError(dir)) /\ UNCHANGED notCandle
    \/ (\E dir \in Directions : burn_print(dir)) /\ UNCHANGED notCandle
    \/ (\E dir \in Directions : burn_return(dir)) /\ UNCHANGED notCandle
    \/ main_script /\ UNCHANGED notCandle
    \/ (\E dir \in Directions : thread_join(dir)) /\ UNCHANGED notCandle

\* Every thread that can take a step is scheduled sooner or later.
SpecCandle ==
    /\ InitCandle
    /\ [][NextCandle]_vars
    /\ WF_vars(BurnStep("Left"))
    /\ WF_vars(BurnStep("Right"))
    /\ WF_vars(MainStep)

\* Each item is in exactly one place: Left's items, then what is left of the
\* candle, then Right's items newest first, are 0, 1, 2, 3, 4.
CandleAccounted ==
    burn["Left"].got \o candle \o Reversed(burn["Right"].got)
        = [x \in 1 .. CandleLen |-> x - 1]
Increasing(sq) == \A x, y \in 1 .. Len(sq) : x < y => sq[x] < sq[y]
Decreasing(sq) == \A x, y \in 1 .. Len(sq) : x < y => sq[x] > sq[y]
BothEnded == \A dir \in Directions : burn[dir].pc = "ended"

\* C27: under every interleaving each of the 5 items is obtained by exactly
\* one thread and none is lost, Left gets its items in increasing order and
\* Right in decreasing order, a thread ends only when the candle is empty,
\* and both threads end and left.join() and right.join() return.
C27_CandleBurns ==
    /\ [](/\ CandleAccounted
          /\ Increasing(burn["Left"].got)
          /\ Decreasing(burn["Right"].got)
          /\ \A dir \in Directions : burn[dir].pc \in {"done", "ended"} => candle = <<>>
          /\ BothEnded =>
                 /\ Len(burn["Left"].got) + Len(burn["Right"].got) = CandleLen
                 /\ ToSet(burn["Left"].got) \cap ToSet(burn["Right"].got) = {}
          /\ main = "end" => BothEnded)
    /\ <>[](main = "end" /\ BothEnded /\ candle = <<>>)

\* C27 witness: both joins have returned; Left got 0 and 1, Right got 4, 3, 2.
C27_Witness ==
    /\ main = "end"
    /\ burn["Left"].got = <<0, 1>>
    /\ burn["Right"].got = <<4, 3, 2>>
    /\ candle = <<>>

\* ------------------------------------------------------------ heaps
\* src/heapq_examples.py builds a heap from data twice: item by item with
\* heapq.heappush into the empty list heap, and in place with
\* heapq.heapify(data). A list is a sequence; the item at the zero-based
\* index n of list h is At(h, n).

\* Lists tried besides the script's data: up to MaxHeapLen numbers.
MaxHeapLen == 4
HeapValues == 1 .. 3

At(h, n) == h[n + 1]
Put(h, n, x) == [h EXCEPT ![n + 1] = x]

\* heapq._siftdown(heap, startpos, pos): the item at pos moves towards
\* startpos past every parent that is larger.
RECURSIVE siftdown_loop(_, _, _, _)
siftdown_loop(h, startpos, pos, newitem) ==
    LET parentpos == (pos - 1) \div 2 IN
    IF pos > startpos /\ newitem < At(h, parentpos)
    THEN siftdown_loop(Put(h, pos, At(h, parentpos)), startpos, parentpos, newitem)
    ELSE Put(h, pos, newitem)

siftdown(h, startpos, pos) == siftdown_loop(h, startpos, pos, At(h, pos))

\* heapq._siftup(heap, pos): the smaller child moves up until a leaf is
\* reached, the item goes to the leaf and is sifted down from there.
RECURSIVE siftup_loop(_, _, _, _)
siftup_loop(h, startpos, pos, newitem) ==
    LET endpos == Len(h)
        childpos == 2 * pos + 1
        rightpos == childpos + 1
        smaller == IF rightpos < endpos /\ ~(At(h, childpos) < At(h, rightpos))
                   THEN rightpos ELSE childpos
    IN IF childpos < endpos
       THEN siftup_loop(Put(h, pos, At(h, smaller)), startpos, smaller, newitem)
       ELSE siftdown(Put(h, pos, newitem), startpos, pos)

siftup(h, pos) == siftup_loop(h, pos, pos, At(h, pos))

\* heapq.heappush(heap, item)
heappush(h, item) == siftdown(Append(h, item), 0, Len(h))

\* heapq.heapify(x): siftup at the indexes len(x) // 2 - 1 down to 0.
RECURSIVE heapify_from(_, _)
heapify_from(x, i) == IF i < 0 THEN x ELSE heapify_from(siftup(x, i), i - 1)

heapify(x) == heapify_from(x, (Len(x) \div 2) - 1)

\* heapq.heappop(heap) on a heap that is not empty: the smallest item and
\* the heap left.
heappop(h) ==
    LET lastelt == h[Len(h)]
        rest == SubSeq(h, 1, Len(h) - 1)
    IN IF rest # <<>>
       THEN [item |-> rest[1], heap |-> siftup(Put(rest, 0, lastelt), 0)]
       ELSE [item |-> lastelt, heap |-> rest]

RECURSIVE ListsUpTo(_)
ListsUpTo(n) ==
    IF n = 0 THEN {<<>>}
    ELSE LET shorter == ListsUpTo(n - 1) IN
         shorter \cup {Append(l, v) : l \in {x \in shorter : Len(x) = n - 1}, v \in HeapValues}

\* for n in data: heapq.heappush(heap, n)
heappush_next ==
    /\ hp.pc = "heappush"
    /\ hp.pushed < Len(data)
    /\ heap' = heappush(heap, data[hp.pushed + 1])
    /\ hp' = [hp EXCEPT !.pushed = @ + 1]
    /\ UNCHANGED data

\* The loop is over.
heappush_done ==
    /\ hp.pc = "heappush"
    /\ hp.pushed = Len(data)
    /\ hp' = [hp EXCEPT !.pc = "heapify"]
    /\ UNCHANGED <<data, heap>>

\* heapq.heapify(data)
heapify_data ==
    /\ hp.pc = "heapify"
    /\ data' = heapify(data)
    /\ hp' = [hp EXCEPT !.pc = "heapified"]
    /\ UNCHANGED heap

InitHeap ==
    /\ CacheIdle /\ KeyIdle /\ ScriptIdle /\ DequeIdle /\ CandleIdle /\ QueueIdle
    /\ ExitIdle
    /\ data \in ListsUpTo(MaxHeapLen) \cup {ExampleData}
    /\ HeapStart

NextHeap ==
    \/ heappush_next /\ UNCHANGED notHeap
    \/ heappush_done /\ UNCHANGED notHeap
    \/ heapify_data /\ UNCHANGED notHeap

SpecHeap == InitHeap /\ [][NextHeap]_vars

\* Each item at index n is <= the items at indexes 2n+1 and 2n+2.
MinHeap(h) ==
    \A n \in 0 .. Len(h) - 1 :
        /\ 2 * n + 1 < Len(h) => At(h, n) <= At(h, 2 * n + 1)
        /\ 2 * n + 2 < Len(h) => At(h, n) <= At(h, 2 * n + 2)

\* C28 as stated: after every heappush the list heap satisfies the min-heap
\* invariant, and once data is heapified the list built by heappush and the
\* heapified list are the same arrangement, for the script's data and for
\* every other list.
C28_Original ==
    /\ MinHeap(heap)
    /\ hp.pc = "heapified" => heap = data

\* ------------------------------------------------------------ queues
\* src/queue_examples.py: the main thread fills and empties a Queue, then a
\* LifoQueue, then puts three jobs into a PriorityQueue, starts two daemon
\* threads running process_job and waits in q.join(). A Job is its priority:
\* jobs compare by priority only. put, get and task_done each hold the
\* queue's mutex: one step each.

\* for i in range(5): q.put(i)
QueueItems == 5
\* Job(3, ...), Job(10, ...), Job(1, ...) in the order they are put.
Jobs == <<3, 10, 1>>

\* The item get() takes and the items left, by kind of queue.
Queue_get(items) == [item |-> items[1], queue |-> Tail(items)]
LifoQueue_get(items) ==
    [item |-> items[Len(items)], queue |-> SubSeq(items, 1, Len(items) - 1)]
PriorityQueue_get_Oldest(items) == [item |-> items[1], queue |-> Tail(items)]
PriorityQueue_get(items) ==
    LET r == heappop(items) IN [item |-> r.item, queue |-> r.heap]

\* q.put(item): the item enters the queue, one more task is unfinished.
queue_put(qu, item) ==
    [qu EXCEPT !.queue = IF qu.kind = "PriorityQueue" THEN heappush(@, item)
                         ELSE Append(@, item),
               !.unfinished_tasks = @ + 1]

\* q.get() on a queue that is not empty.
queue_get(qu) ==
    CASE qu.kind = "Queue" -> Queue_get(qu.queue)
      [] qu.kind = "LifoQueue" -> LifoQueue_get(qu.queue)
      [] qu.kind = "PriorityQueue" -> PriorityQueue_get(qu.queue)

\* q.empty()
queue_empty(qu) == Len(qu.queue) = 0

\* for i in range(5): q.put(i)
main_put ==
    /\ qmain.pc = "put"
    /\ q' = queue_put(q, qmain.i)
    /\ qmain' = IF qmain.i + 1 < QueueItems THEN [qmain EXCEPT !.i = @ + 1]
                                            ELSE [pc |-> "get", i |-> 0]
    /\ UNCHANGED <<workers, qlog>>

\* while not q.empty(): print(q.get())
main_get ==
    /\ qmain.pc = "get"
    /\ ~queue_empty(q)
    /\ LET r == queue_get(q) IN
       /\ q' = [q EXCEPT !.queue = r.queue]
       /\ qlog' = [qlog EXCEPT ![q.kind] = Append(@, r.item)]
    /\ UNCHANGED <<qmain, workers>>

\* The loop ends on the empty queue; q = queue.LifoQueue(), and the second
\* time q = queue.PriorityQueue().
main_next_queue ==
    /\ qmain.pc = "get"
    /\ queue_empty(q)
    /\ IF q.kind = "Queue"
       THEN q' = NewQueue("LifoQueue") /\ qmain' = [pc |-> "put", i |-> 0]
       ELSE q' = NewQueue("PriorityQueue") /\ qmain' = [pc |-> "put_job", i |-> 0]
    /\ UNCHANGED <<workers, qlog>>

\* q.put(Job(...)), three times
main_put_job ==
    /\ qmain.pc = "put_job"
    /\ q' = queue_put(q, Jobs[qmain.i + 1])
    /\ qmain' = IF qmain.i + 1 < Len(Jobs) THEN [qmain EXCEPT !.i = @ + 1]
                                           ELSE [pc |-> "start", i |-> 0]
    /\ UNCHANGED <<workers, qlog>>

\* for w in workers: w.setDaemon(True); w.start()
worker_start ==
    /\ qmain.pc = "start"
    /\ workers' = [workers EXCEPT ![qmain.i + 1].pc = "get"]
    /\ qmain' = IF qmain.i + 1 < NumWorkers THEN [qmain EXCEPT !.i = @ + 1]
                                            ELSE [pc |-> "join", i |-> 0]
    /\ UNCHANGED <<q, qlog>>

\* q.join() returns when no task is unfinished.
main_join ==
    /\ qmain.pc = "join"
    /\ q.unfinished_tasks = 0
    /\ qmain' = [qmain EXCEPT !.pc = "end"]
    /\ UNCHANGED <<q, workers, qlog>>

\* next_job = q.get(): blocks while the queue is empty.
process_job_get(w) ==
    /\ workers[w].pc = "get"
    /\ ~queue_empty(q)
    /\ LET r == queue_get(q) IN
       /\ q' = [q EXCEPT !.queue = r.queue]
       /\ workers' = [workers EXCEPT ![w] = [pc |-> "print", next_job |-> r.item]]
       /\ qlog' = [qlog EXCEPT !.gets = Append(@, [by |-> w, job |-> r.item])]
    /\ UNCHANGED qmain

\* print("Processing job:", next_job.description)
process_job_print(w) ==
    /\ workers[w].pc = "print"
    /\ workers' = [workers EXCEPT ![w].pc = "task_done"]
    /\ UNCHANGED <<q, qmain, qlog>>

\* q.task_done(), then back to the head of the loop
process_job_task_done(w) ==
    /\ workers[w].pc = "task_done"
    /\ q' = [q EXCEPT !.unfinished_tasks = @ - 1]
    /\ workers' = [workers EXCEPT ![w].pc = "get"]
    /\ qlog' = [qlog EXCEPT !.done = Append(@, workers[w].next_job)]
    /\ UNCHANGED qmain

InitQueue ==
    /\ CacheIdle /\ KeyIdle /\ ScriptIdle /\ DequeIdle /\ CandleIdle /\ HeapIdle
    /\ QueueIdle
    /\ ExitIdle

\* The steps of one worker thread, and of the main thread.
WorkerStep(w) ==
    (process_job_get(w) \/ process_job_print(w) \/ process_job_task_done(w))
    /\ UNCHANGED notQueue
QueueMainStep ==
    (main_put \/ main_get \/ main_next_queue \/ main_put_job \/ worker_start \/ main_join)
    /\ UNCHANGED notQueue

NextQueue ==
    \/ main_put /\ UNCHANGED notQueue
    \/ main_get /\ UNCHANGED notQueue
    \/ main_next_queue /\ UNCHANGED notQueue
    \/ main_put_job /\ UNCHANGED notQueue
    \/ worker_start /\ UNCHANGED notQueue
    \/ main_join /\ UNCHANGED notQueue
    \/ (\E w \in Workers : process_job_get(w)) /\ UNCHANGED notQueue
    \/ (\E w \in Workers : process_job_print(w)) /\ UNCHANGED notQueue
    \/ (\E w \in Workers : process_job_task_done(w)) /\ UNCHANGED notQueue

\* Every thread that can take a step is scheduled sooner or later.
SpecQueue ==
    /\ InitQueue
    /\ [][NextQueue]_vars
    /\ WF_vars(QueueMainStep)
    /\ \A w \in Workers : WF_vars(WorkerStep(w))

\* q is a prefix of r.
IsPrefix(x, y) == Len(x) <= Len(y) /\ x = SubSeq(y, 1, Len(x))
\* The jobs the workers have taken, in the order of their get().
JobsGot == [n \in 1 .. Len(qlog.gets) |-> qlog.gets[n].job]

\* C29: the jobs leave the PriorityQueue in the order 1, 3, 10, each taken by
\* one worker only; q.join() has returned only if task_done() was called for
\* all three jobs, and it does return; the single thread gets the items of
\* the Queue in put order and those of the LifoQueue in reverse put order.
C29_QueueOrders ==
    /\ [](/\ IsPrefix(JobsGot, <<1, 3, 10>>)
          /\ \A m, n \in 1 .. Len(qlog.gets) : qlog.gets[m].job = qlog.gets[n].job => m = n
          /\ qmain.pc = "end" =>
                 /\ Len(qlog.done) = 3
                 /\ ToSet(qlog.done) = {1, 3, 10}
                 /\ JobsGot = <<1, 3, 10>>
                 /\ q.unfinished_tasks = 0
          /\ IsPrefix(qlog.Queue, <<0, 1, 2, 3, 4>>)
          /\ IsPrefix(qlog.LifoQueue, <<4, 3, 2, 1, 0>>)
          /\ qmain.pc \notin {"put", "get"} =>
                 qlog.Queue = <<0, 1, 2, 3, 4>> /\ qlog.LifoQueue = <<4, 3, 2, 1, 0>>)
    /\ <>[](qmain.pc = "end")

\* C29 witness: q.join() has returned; the first worker took jobs 1 and 10,
\* the second took job 3 and finished it last.
C29_Witness ==
    /\ qmain.pc = "end"
    /\ qlog.gets = <<[by |-> 1, job |-> 1], [by |-> 2, job |-> 3], [by |-> 1, job |-> 10]>>
    /\ qlog.done = <<1, 10, 3>>

\* ------------------------------------------------------------ ExitStack callbacks
\* src/contextlib_examples.py: inside "with contextlib.ExitStack() as stack"
\* callbacks are registered with stack.callback; the block then ends or
\* raises RuntimeError, and ExitStack.__exit__ pops and calls the callbacks.
\* A callback is registered with the arguments it will get; what it returns
\* is up to the callback (the script's callback returns None).

\* Callbacks registered in one with block: 0 .. MaxCallbacks.
MaxCallbacks == 3

\* The arguments the script registers callback with.
CallbackArgs == {"'arg1', 'arg2'", "arg3='val3'"}

\* stack.callback wraps the callback: the wrapper calls it with the
\* registered arguments and returns None, whatever the callback returned.
exit_wrapper_ReturnsResult(cb) == cb.returns
exit_wrapper(cb) == FALSE

\* stack.callback(callback, ...)
stack_callback(args, returns) ==
    /\ es.pc = "body"
    /\ Len(stack) < MaxCallbacks
    /\ LET cb == [id |-> Len(stack) + 1, args |-> args, returns |-> returns] IN
       /\ stack' = Append(stack, cb)
       /\ es' = [es EXCEPT !.registered = Append(@, cb)]

\* Control leaves the with block at its end.
body_ends ==
    /\ es.pc = "body"
    /\ es' = [es EXCEPT !.pc = "__exit__"]
    /\ UNCHANGED stack

\* raise RuntimeError("thrown error")
body_raises ==
    /\ es.pc = "body"
    /\ es' = [es EXCEPT !.pc = "__exit__", !.exc = "RuntimeError", !.received_exc = TRUE]
    /\ UNCHANGED stack

\* __exit__: the callback registered last is popped and called; a true
\* result of the wrapper suppresses the exception.
exit_callback ==
    /\ es.pc = "__exit__"
    /\ stack # <<>>
    /\ LET cb == stack[Len(stack)]
           suppress == exit_wrapper(cb)
       IN /\ stack' = SubSeq(stack, 1, Len(stack) - 1)
          /\ es' = [es EXCEPT !.invoked = Append(@, cb.id),
                              !.suppressed_exc = @ \/ suppress,
                              !.exc = IF suppress THEN "None" ELSE @]

\* __exit__ returns received_exc and suppressed_exc: the exception goes on
\* to the except clause unless that is true.
exit_return ==
    /\ es.pc = "__exit__"
    /\ stack = <<>>
    /\ es' = [es EXCEPT !.pc = IF es.received_exc /\ ~es.suppressed_exc
                               THEN "except RuntimeError" ELSE "after with"]
    /\ UNCHANGED stack

\* except RuntimeError as err: print("ERROR: ...")
except_RuntimeError ==
    /\ es.pc = "except RuntimeError"
    /\ es' = [es EXCEPT !.pc = "after try", !.exc = "None"]
    /\ UNCHANGED stack

InitExit ==
    /\ CacheIdle /\ KeyIdle /\ ScriptIdle /\ DequeIdle /\ CandleIdle /\ HeapIdle
    /\ QueueIdle
    /\ ExitIdle

NextExit ==
    \/ (\E args \in CallbackArgs, returns \in BOOLEAN : stack_callback(args, returns))
           /\ UNCHANGED notExit
    \/ body_ends /\ UNCHANGED notExit
    \/ body_raises /\ UNCHANGED notExit
    \/ exit_callback /\ UNCHANGED notExit
    \/ exit_return /\ UNCHANGED notExit
    \/ except_RuntimeError /\ UNCHANGED notExit

SpecExit == InitExit /\ [][NextExit]_vars

\* The callbacks registered so far, by their number, in registration order.
RegisteredIds == [n \in 1 .. Len(es.registered) |-> es.registered[n].id]

\* Control has left the with block and __exit__ has returned.
Exited == es.pc \in {"after with", "except RuntimeError", "after try"}

\* C30: no callback runs inside the with block; while __exit__ runs, the
\* callbacks called so far are the last registered ones, newest first, each
\* once; when __exit__ has returned every callback was called exactly once,
\* in the reverse of the registration order, whether the block ended or
\* raised; and if it raised, the exception reaches the except clause
\* whatever the callbacks returned.
C30_CallbacksReversed ==
    /\ es.pc = "body" => es.invoked = <<>>
    /\ IsPrefix(es.invoked, Reversed(RegisteredIds))
    /\ Len(es.invoked) + Len(stack) = Len(es.registered)
    /\ Exited =>
           /\ es.invoked = Reversed(RegisteredIds)
           /\ \A id \in ToSet(RegisteredIds) :
                  Cardinality({n \in 1 .. Len(es.invoked) : es.invoked[n] = id}) = 1
           /\ es.received_exc => es.pc \in {"except RuntimeError", "after try"}
           /\ ~es.received_exc => es.pc = "after with"
    /\ es.pc = "except RuntimeError" => es.exc = "RuntimeError"

\* C30 witness: the block registered callback twice, as the script does, and
\* raised; both callbacks ran, the second first, one of them returned a true
\* value, and the exception is in the except clause.
C30_Witness ==
    /\ es.pc = "except RuntimeError"
    /\ es.registered = <<[id |-> 1, args |-> "'arg1', 'arg2'", returns |-> TRUE],
                         [id |-> 2, args |-> "arg3='val3'", returns |-> FALSE]>>
    /\ es.invoked = <<2, 1>>
    /\ es.exc = "RuntimeError"
    /\ stack = <<>>

====
